---- MODULE Spec2Model ----
(***************************************************************************)
(* A model of dns_llm_server.py: the per-IP token bucket                   *)
(* (rate_limit_allow), the streaming producer (llm_stream) and the         *)
(* deadline-bounded consumption loop of DNSHandler.handle.                 *)
(*                                                                         *)
(* Time is a discrete clock of TicksPerSec ticks per second.  The          *)
(* floating-point token count of a bucket is kept exactly as an integer    *)
(* number of units, Unit units to the token, so that the refill of one     *)
(* tick, TOKENS_PER_MIN / 60 / TicksPerSec tokens, is TOKENS_PER_MIN       *)
(* units.                                                                  *)
(***************************************************************************)
EXTENDS Integers, Sequences, FiniteSets, TLC

\* ------------------------------------------------------------------ config
TOKENS_PER_MIN == 60
SECONDS_PER_MIN == 60
MAX_CHARS == 500
DEADLINE_SECONDS == 4

\* ------------------------------------------------------------------ bounds
TicksPerSec == 2
MaxTicks == 2
MaxCalls == 62
MaxStartTokens == 2
MaxThreadCalls == 4
MaxFrags == 3
MaxLate == 2

Unit == SECONDS_PER_MIN * TicksPerSec
Capacity == TOKENS_PER_MIN * Unit
Window == SECONDS_PER_MIN * TicksPerSec

Keys == {"ip1", "ip2"}
\* the one client of the sequential runs
SeqKeys == {"ip1"}
\* the clock readings of two successive calls differ by nothing, by one tick,
\* or by one tick less than a minute
TimeSteps == {1, Window - 1}
NoKey == "none"

Min(a, b) == IF a < b THEN a ELSE b
Max(a, b) == IF a < b THEN b ELSE a

VARIABLES
    now,        \* time.time(), in ticks
    BUCKETS,    \* _BUCKETS: ip -> [tokens, ts], a partial function
    ret,        \* what the last rate_limit_allow call returned, and for which ip
    nticks,     \* clock advances so far
    drainedAt,  \* the time of the latest call that returned True and left less than
                \* one token, -1 when the latest call that returned True left more
    winKey,     \* observation window: the ip observed, NoKey before it opens
    winStart,   \* the time of the call that opened it
    winFresh,   \* whether that ip had no bucket when it opened
    winCalls,   \* calls for winKey in the first second of a window opened fresh
    winAdmits,  \* calls for winKey that returned True in the Window ticks since it opened
    tpc,        \* per handler thread: the line of rate_limit_allow it is at, or "idle"
    tip,        \* per handler thread: the ip of its call
    tnow,       \* per handler thread: its local now
    ttokens,    \* per handler thread: its local tokens
    started,    \* calls the handler threads have begun
    admits,     \* per ip: calls of the handler threads that returned True
    startTokens, \* per ip: the whole tokens it held when the threads started
    pc,         \* the line of DNSHandler.handle the handler of the question is at
    q_out,      \* the queue between llm_stream and the handler
    response_chunks,
    deadline,
    done,
    final,
    waitEnd,    \* when the q_out.get in progress gives up
    ppc,        \* where the llm_stream thread of the question is
    emitted,    \* the texts llm_stream has put so far, in order
    failed,     \* whether llm_stream went through its except clause
    earlyPut,   \* whether something was put on q_out before the deadline had passed
    marked,     \* whether line 167 changed the text
    endedAtFinal, \* whether llm_stream had put its None when line 165 ran
    msg,        \* the inbound message: whether it parses, and its questions' types
    qi,         \* the index in req.questions of the q of the for loop, 0 before it
    reply,      \* the answer records added to reply, in order
    sent,       \* sock.sendto calls of the handler
    rlCalls,    \* rate_limit_allow calls of the handler
    nstarted,   \* llm_stream threads the handler has started
    finals,     \* per question index: the text line 170 left in final, in order of finalisation
    armedAt,    \* the time at which line 152 ran for the question in progress
    oq,         \* the queue of the previous question, still held by its llm_stream thread
    oppc,       \* where that thread is
    oemitted,   \* how many texts that thread has put in all
    txt,        \* the argument of a split_txt call
    segments,   \* what the call returned
    spc         \* "call" before the call, "returned" after it

winvars == <<winKey, winStart, winFresh, winCalls, winAdmits>>
seqvars == <<ret, nticks, drainedAt, winvars>>
thvars == <<tpc, tip, tnow, ttokens, started, admits, startTokens>>
hvars == <<pc, response_chunks, deadline, done, final, waitEnd, marked, endedAtFinal>>
pvars == <<ppc, emitted, failed, earlyPut>>
aggvars == <<q_out, hvars, pvars>>
splitvars == <<txt, segments, spc>>
msgvars == <<msg, qi, reply, sent, rlCalls, nstarted, finals, armedAt, oq, oppc, oemitted,
             splitvars>>
vars == <<now, BUCKETS, seqvars, thvars, aggvars, msgvars>>

Threads == {"t1", "t2"}

\* ------------------------------------------------------- rate_limit_allow
\* a first-seen key starting with an empty bucket
BucketGetEmpty(b, ip, t) ==
    IF ip \in DOMAIN b THEN b[ip] ELSE [tokens |-> 0, ts |-> t]

\* _BUCKETS.get(ip, (TOKENS_PER_MIN, now))
BucketGet(b, ip, t) ==
    IF ip \in DOMAIN b THEN b[ip] ELSE [tokens |-> Capacity, ts |-> t]

\* the refill taken per second instead of per minute
RefillPerSecond(tokens, ts, t) ==
    Min(Capacity, tokens + (t - ts) * TOKENS_PER_MIN * SECONDS_PER_MIN)

\* min(TOKENS_PER_MIN, tokens + (now - ts) * (TOKENS_PER_MIN / 60))
Refill(tokens, ts, t) ==
    Min(Capacity, tokens + (t - ts) * TOKENS_PER_MIN)

\* the value rate_limit_allow returns for the refilled token count
Admit(tokens) == ~(tokens < Unit)

\* a call that returns False stores no tokens at all
StoredCreditLost(tokens, t) ==
    IF tokens < Unit
    THEN [tokens |-> 0, ts |-> t]
    ELSE [tokens |-> tokens - Unit, ts |-> t]

\* the pair rate_limit_allow stores for the refilled token count
Stored(tokens, t) ==
    IF tokens < Unit
    THEN [tokens |-> tokens, ts |-> t]
    ELSE [tokens |-> tokens - Unit, ts |-> t]

BucketPut(b, ip, v) ==
    [k \in DOMAIN b \cup {ip} |-> IF k = ip THEN v ELSE b[k]]

\* one whole call of rate_limit_allow(ip) at time now
rate_limit_allow(ip) ==
    LET old == BucketGet(BUCKETS, ip, now)
        tokens == Refill(old.tokens, old.ts, now)
        observed == ip = winKey /\ now - winStart < Window
        burst == observed /\ winFresh /\ now - winStart < TicksPerSec
    IN  /\ burst => winCalls < MaxCalls
        /\ BUCKETS' = BucketPut(BUCKETS, ip, Stored(tokens, now))
        /\ ret' = [ip |-> ip, allowed |-> Admit(tokens)]
        /\ winCalls' = IF burst THEN winCalls + 1 ELSE winCalls
        /\ winAdmits' = IF observed /\ Admit(tokens) THEN winAdmits + 1 ELSE winAdmits
        /\ drainedAt' = IF Admit(tokens)
                        THEN (IF Stored(tokens, now).tokens < Unit THEN now ELSE -1)
                        ELSE drainedAt
        /\ UNCHANGED <<now, nticks, winKey, winStart, winFresh, thvars, msgvars, aggvars>>

\* the observer opens its window on ip, just before a call
OpenWindow(ip) ==
    /\ winKey = NoKey
    /\ winKey' = ip
    /\ winStart' = now
    /\ winFresh' = (ip \notin DOMAIN BUCKETS)
    /\ UNCHANGED <<now, BUCKETS, ret, nticks, drainedAt, winCalls, winAdmits, thvars, msgvars, aggvars>>

\* the clock advances between two calls
Tick(dt) ==
    /\ nticks < MaxTicks
    /\ nticks' = nticks + 1
    /\ now' = now + dt
    /\ UNCHANGED <<BUCKETS, ret, drainedAt, winvars, thvars, msgvars, aggvars>>

InitSeq ==
    /\ ret = [ip |-> NoKey, allowed |-> FALSE]
    /\ nticks = 0
    /\ drainedAt = -1
    /\ winKey = NoKey
    /\ winStart = 0
    /\ winFresh = FALSE
    /\ winCalls = 0
    /\ winAdmits = 0

InitThreads ==
    /\ tpc = [t \in Threads |-> "idle"]
    /\ tip = [t \in Threads |-> NoKey]
    /\ tnow = [t \in Threads |-> 0]
    /\ ttokens = [t \in Threads |-> 0]
    /\ started = 0
    /\ admits = [ip \in Keys |-> 0]

\* no question is being processed
InitNoQuestion ==
    /\ pc = "idle"
    /\ q_out = << >>
    /\ response_chunks = << >>
    /\ deadline = 0
    /\ done = FALSE
    /\ final = << >>
    /\ waitEnd = 0
    /\ ppc = "off"
    /\ emitted = << >>
    /\ failed = FALSE
    /\ earlyPut = FALSE
    /\ marked = FALSE
    /\ endedAtFinal = FALSE

\* no split_txt call is observed
InitNoSplit ==
    /\ txt = << >>
    /\ segments = << >>
    /\ spc = "off"

\* no message is being handled
InitNoMessage ==
    /\ msg = [parses |-> FALSE, questions |-> << >>]
    /\ qi = 0
    /\ reply = << >>
    /\ sent = 0
    /\ rlCalls = 0
    /\ nstarted = 0
    /\ finals = << >>
    /\ armedAt = 0
    /\ oq = << >>
    /\ oppc = "off"
    /\ oemitted = 0
    /\ InitNoSplit

InitRL ==
    /\ now = 0
    /\ BUCKETS = << >>
    /\ InitSeq
    /\ InitThreads
    /\ InitNoQuestion
    /\ InitNoMessage
    /\ startTokens = [ip \in Keys |-> TOKENS_PER_MIN]

NextRL ==
    \/ \E ip \in SeqKeys : rate_limit_allow(ip)
    \/ \E ip \in SeqKeys : OpenWindow(ip)
    \/ \E dt \in TimeSteps : Tick(dt)

SpecRL == InitRL /\ [][NextRL]_vars

\* ------------------------------- rate_limit_allow on the handler threads
\* ThreadingUDPServer runs handle, hence rate_limit_allow, on one thread per
\* inbound message; nothing serialises the threads between two lines.

\* line 47: now = time.time()
ReadClock(t, ip) ==
    /\ tpc[t] = "idle"
    /\ started < MaxThreadCalls
    /\ started' = started + 1
    /\ tpc' = [tpc EXCEPT ![t] = "L48"]
    /\ tip' = [tip EXCEPT ![t] = ip]
    /\ tnow' = [tnow EXCEPT ![t] = now]
    /\ UNCHANGED <<now, BUCKETS, seqvars, msgvars, ttokens, admits, startTokens, aggvars>>

\* lines 48-50: tokens, ts = _BUCKETS.get(...); tokens = min(...)
LoadBucket(t) ==
    /\ tpc[t] = "L48"
    /\ LET old == BucketGet(BUCKETS, tip[t], tnow[t])
       IN  ttokens' = [ttokens EXCEPT ![t] = Refill(old.tokens, old.ts, tnow[t])]
    /\ tpc' = [tpc EXCEPT ![t] = "L51"]
    /\ UNCHANGED <<now, BUCKETS, seqvars, msgvars, tip, tnow, started, admits, startTokens, aggvars>>

\* lines 51-55: _BUCKETS[ip] = ...; return
StoreBucket(t) ==
    /\ tpc[t] = "L51"
    /\ BUCKETS' = BucketPut(BUCKETS, tip[t], Stored(ttokens[t], tnow[t]))
    /\ admits' = [admits EXCEPT ![tip[t]] = @ + IF Admit(ttokens[t]) THEN 1 ELSE 0]
    /\ tpc' = [tpc EXCEPT ![t] = "idle"]
    /\ tip' = [tip EXCEPT ![t] = NoKey]
    /\ tnow' = [tnow EXCEPT ![t] = 0]
    /\ ttokens' = [ttokens EXCEPT ![t] = 0]
    /\ UNCHANGED <<now, seqvars, msgvars, started, startTokens, aggvars>>

\* the program when the threads start: no bucket yet, or the bucket "ip1" is
\* left with after TOKENS_PER_MIN - k calls at time 0
InitConc ==
    /\ now = 0
    /\ InitSeq
    /\ InitThreads
    /\ InitNoQuestion
    /\ InitNoMessage
    /\ \/ /\ BUCKETS = << >>
          /\ startTokens = [ip \in Keys |-> TOKENS_PER_MIN]
       \/ \E k \in 0..MaxStartTokens :
            /\ BUCKETS = [ip \in {"ip1"} |-> [tokens |-> k * Unit, ts |-> 0]]
            /\ startTokens = [ip \in Keys |-> IF ip = "ip1" THEN k ELSE TOKENS_PER_MIN]

NextConc ==
    \/ \E t \in Threads, ip \in Keys : ReadClock(t, ip)
    \/ \E t \in Threads : LoadBucket(t)
    \/ \E t \in Threads : StoreBucket(t)
    \/ Tick(1)

SpecConc == InitConc /\ [][NextConc]_vars

\* ------------------------------------------------------------------ text
\* A str is the sequence of its characters.
Rep(c, n) == [i \in 1..n |-> c]

RECURSIVE Join(_)
\* "".join(chunks)
Join(chunks) ==
    IF chunks = << >> THEN << >> ELSE Head(chunks) \o Join(Tail(chunks))

\* s[:n], n >= 0
Take(s, n) == SubSeq(s, 1, Min(n, Len(s)))

\* s[:-n], n > 0
DropLast(s, n) == SubSeq(s, 1, Max(0, Len(s) - n))

\* "..."
Marker == <<".", ".", ".">>

\* "Request timed out"
TIMEOUT_TEXT ==
    <<"R", "e", "q", "u", "e", "s", "t", " ", "t", "i", "m", "e", "d", " ", "o", "u", "t">>

\* "[llm error] "
LLM_ERROR_PREFIX == <<"[", "l", "l", "m", " ", "e", "r", "r", "o", "r", "]", " ">>

\* the lengths of the chunks the backend streams, and of the str() of the
\* exceptions llm_stream catches
FragLens == {1, 250, 280}
ErrLens == {30, 500}

\* the i-th chunk of a stream is made of the i-th letter
Letters == <<"a", "b", "c", "d", "e">>
Chunk(i, n) == Rep(Letters[((i - 1) % Len(Letters)) + 1], n)

\* f"[llm error] {err}"
ErrorText(n) == LLM_ERROR_PREFIX \o Rep("x", n)

\* the "content" of a line of the response that is JSON but not a str (a
\* number, a list): one item that is no character
NotAStr == <<"not a str">>

\* the items of q_out: a str, or None
Item(text) == [none |-> FALSE, text |-> text]
None == [none |-> TRUE, text |-> << >>]

\* ------------------------------------------------------------- llm_stream
\* out_queue.put(item)
Put(item) ==
    /\ q_out' = Append(q_out, item)
    /\ earlyPut' = (earlyPut \/ pc \in {"L147", "L151"} \/ now <= deadline)
    /\ emitted' = IF item.none THEN emitted ELSE Append(emitted, item.text)

\* lines 82-87: a line of the response carries content
PutChunk(n) ==
    /\ ppc = "try"
    /\ Len(emitted) < MaxFrags
    /\ Put(Item(Chunk(Len(emitted) + 1, n)))
    /\ UNCHANGED <<now, BUCKETS, seqvars, thvars, msgvars, hvars, ppc, failed>>

\* lines 80-85 raise (the request, the status check, the read, the parse);
\* lines 91-92: the except clause puts the error text
Fail(n) ==
    /\ ppc = "try"
    /\ Put(Item(ErrorText(n)))
    /\ failed' = TRUE
    /\ ppc' = "finally"
    /\ UNCHANGED <<now, BUCKETS, seqvars, thvars, msgvars, hvars>>

\* the response ends and the thread ends with it, skipping line 95
EndOfStreamUnmarked ==
    /\ ppc = "try"
    /\ ppc' = "ended"
    /\ UNCHANGED <<now, BUCKETS, seqvars, thvars, msgvars, q_out, hvars, emitted, failed, earlyPut>>

\* lines 82, 88-89: the response ends, or a line says done
EndOfStream ==
    /\ ppc = "try"
    /\ ppc' = "finally"
    /\ UNCHANGED <<now, BUCKETS, seqvars, thvars, msgvars, q_out, hvars, emitted, failed, earlyPut>>

\* lines 94-95: out_queue.put(None)
PutNone ==
    /\ ppc = "finally"
    /\ Put(None)
    /\ ppc' = "ended"
    /\ UNCHANGED <<now, BUCKETS, seqvars, thvars, msgvars, hvars, failed>>

\* ------------------------------------- DNSHandler.handle, one TXT question
\* the get of line 157 with the timeout of a whole DEADLINE_SECONDS each time
GetTimeoutRearmed(dl, t) == DEADLINE_SECONDS * TicksPerSec

\* line 157: deadline - time.time()
GetTimeout(dl, t) == dl - t

\* line 165 without its slice
TruncateNothing(s) == s

\* line 165: [:MAX_CHARS]
Truncate(s) == Take(s, MAX_CHARS)

\* the marker appended to the text
MarkAppended(s, d) ==
    IF Len(s) = MAX_CHARS /\ ~d THEN s \o Marker ELSE s

\* lines 166-167
Mark(s, d) ==
    IF Len(s) = MAX_CHARS /\ ~d THEN DropLast(s, 3) \o Marker ELSE s

\* lines 169-170
OrTimedOut(s) == IF s = << >> THEN TIMEOUT_TEXT ELSE s

\* lines 165-170
Final(chunks, d) == OrTimedOut(Mark(Truncate(Join(chunks)), d))

\* lines 147-149: the queue and the llm_stream thread of the question; the
\* thread of the question before keeps the queue it was given
StartStream ==
    /\ pc = "L147"
    /\ q_out' = << >>
    /\ ppc' = "try"
    /\ emitted' = << >>
    /\ failed' = FALSE
    /\ earlyPut' = FALSE
    /\ oq' = q_out
    /\ oppc' = ppc
    /\ oemitted' = Len(emitted)
    /\ nstarted' = nstarted + 1
    /\ pc' = "L151"
    /\ UNCHANGED <<now, BUCKETS, seqvars, thvars, response_chunks, deadline, done,
                   final, waitEnd, marked, endedAtFinal,
                   msg, qi, reply, sent, rlCalls, finals, armedAt, splitvars>>

\* the deadline set for the first question of the message only
ArmDeadlineOnce ==
    /\ pc = "L151"
    /\ response_chunks' = << >>
    /\ deadline' = IF nstarted = 1 THEN now + DEADLINE_SECONDS * TicksPerSec ELSE deadline
    /\ done' = FALSE
    /\ armedAt' = now
    /\ pc' = "L155"
    /\ UNCHANGED <<now, BUCKETS, seqvars, thvars, q_out, pvars,
                   final, waitEnd, marked, endedAtFinal,
                   msg, qi, reply, sent, rlCalls, nstarted, finals, oq, oppc, oemitted,
                   splitvars>>

\* lines 151-153
ArmDeadline ==
    /\ pc = "L151"
    /\ response_chunks' = << >>
    /\ deadline' = now + DEADLINE_SECONDS * TicksPerSec
    /\ done' = FALSE
    /\ armedAt' = now
    /\ pc' = "L155"
    /\ UNCHANGED <<now, BUCKETS, seqvars, thvars, q_out, pvars,
                   final, waitEnd, marked, endedAtFinal,
                   msg, qi, reply, sent, rlCalls, nstarted, finals, oq, oppc, oemitted,
                   splitvars>>

\* line 155: the test of the while; "".join raises TypeError, here or on line
\* 165, when a chunk is not a str
LoopTest ==
    /\ pc = "L155"
    /\ pc' = IF \E i \in 1..Len(response_chunks) : response_chunks[i] = NotAStr
             THEN "raised"
             ELSE IF now < deadline /\ Len(Join(response_chunks)) < MAX_CHARS
                  THEN "L157" ELSE "L165"
    /\ UNCHANGED <<now, BUCKETS, seqvars, thvars, msgvars, q_out, pvars, response_chunks,
                   deadline, done, final, waitEnd, marked, endedAtFinal>>

\* line 157: the timeout is computed and q_out.get is entered; Queue.get
\* raises ValueError for a negative timeout, which line 158 does not catch
CallGet ==
    /\ pc = "L157"
    /\ LET timeout == GetTimeout(deadline, now)
       IN  IF timeout < 0
           THEN pc' = "raised" /\ UNCHANGED waitEnd
           ELSE pc' = "get" /\ waitEnd' = now + timeout
    /\ UNCHANGED <<now, BUCKETS, seqvars, thvars, msgvars, q_out, pvars, response_chunks,
                   deadline, done, final, marked, endedAtFinal>>

\* lines 157, 160-163: q_out.get returns an item
GetItem ==
    /\ pc = "get"
    /\ q_out # << >>
    /\ q_out' = Tail(q_out)
    /\ IF Head(q_out).none
       THEN done' = TRUE /\ pc' = "L165" /\ UNCHANGED response_chunks
       ELSE /\ response_chunks' = Append(response_chunks, Head(q_out).text)
            /\ pc' = "L155"
            /\ UNCHANGED done
    /\ UNCHANGED <<now, BUCKETS, seqvars, thvars, msgvars, pvars,
                   deadline, final, waitEnd, marked, endedAtFinal>>

\* lines 157-159: q_out.get raises queue.Empty when its timeout has run out
GetEmpty ==
    /\ pc = "get"
    /\ q_out = << >>
    /\ now >= waitEnd
    /\ pc' = "L165"
    /\ UNCHANGED <<now, BUCKETS, seqvars, thvars, msgvars, q_out, pvars, response_chunks,
                   deadline, done, final, waitEnd, marked, endedAtFinal>>

\* lines 165-170
Finalize ==
    /\ pc = "L165"
    /\ final' = Final(response_chunks, done)
    /\ marked' = (Mark(Truncate(Join(response_chunks)), done)
                    # Truncate(Join(response_chunks)))
    /\ endedAtFinal' = (ppc = "ended")
    /\ finals' = Append(finals, [q |-> qi, text |-> Final(response_chunks, done)])
    /\ pc' = "answered"
    /\ UNCHANGED <<now, BUCKETS, seqvars, thvars, q_out, pvars, response_chunks,
                   deadline, done, waitEnd,
                   msg, qi, reply, sent, rlCalls, nstarted, armedAt, oq, oppc, oemitted,
                   splitvars>>

\* the lines of handle outside the consumption of a stream, and its ends
MsgLevelPcs == {"L126", "L129", "L140", "answered", "L181", "sent", "dropped", "raised"}

\* the clock advances by a second, up to MaxLate seconds before the deadline
\* is set and MaxLate seconds past it; a q_out.get whose timeout has run out
\* on an empty queue gives up before it does; the lines of handle outside
\* the consumption of a stream take no time
Elapse ==
    /\ pc \notin MsgLevelPcs
    /\ now < (IF pc \in {"L147", "L151"} THEN 0 ELSE deadline) + MaxLate * TicksPerSec
    /\ ~(pc = "get" /\ q_out = << >> /\ now >= waitEnd)
    /\ now' = now + TicksPerSec
    /\ UNCHANGED <<BUCKETS, seqvars, thvars, msgvars, aggvars>>

\* a TXT question of an admitted message is about to be processed
InitAgg ==
    /\ now = 0
    /\ BUCKETS = << >>
    /\ InitSeq
    /\ InitThreads
    /\ startTokens = [ip \in Keys |-> TOKENS_PER_MIN]
    /\ pc = "L147"
    /\ q_out = << >>
    /\ response_chunks = << >>
    /\ deadline = 0
    /\ done = FALSE
    /\ final = << >>
    /\ waitEnd = 0
    /\ ppc = "off"
    /\ emitted = << >>
    /\ failed = FALSE
    /\ earlyPut = FALSE
    /\ marked = FALSE
    /\ endedAtFinal = FALSE
    /\ msg = [parses |-> TRUE, questions |-> <<"TXT">>]
    /\ qi = 1
    /\ reply = << >>
    /\ sent = 0
    /\ rlCalls = 1
    /\ nstarted = 0
    /\ finals = << >>
    /\ armedAt = 0
    /\ oq = << >>
    /\ oppc = "off"
    /\ oemitted = 0
    /\ InitNoSplit

NextAgg ==
    \/ StartStream
    \/ ArmDeadline
    \/ LoopTest
    \/ CallGet
    \/ GetItem
    \/ GetEmpty
    \/ Finalize
    \/ \E n \in FragLens : PutChunk(n)
    \/ \E n \in ErrLens : Fail(n)
    \/ EndOfStream
    \/ PutNone
    \/ Elapse

SpecAgg == InitAgg /\ [][NextAgg]_vars

\* -------------------------------------------------------------- split_txt
\* the 255 of line 118
TXT_MAX == 255

\* characters outside ASCII are named by their code point; each is one
\* element of a str
E_ACUTE == "U+00E9"
EURO == "U+20AC"

\* the number of bytes the TXT rdata of line 177 holds for a character (UTF-8)
Utf8Len(c) == IF c = E_ACUTE THEN 2 ELSE IF c = EURO THEN 3 ELSE 1

\* the number of bytes of a str in the TXT rdata: the sum of Utf8Len over its
\* characters
Bytes(s) ==
    Cardinality({i \in 1..Len(s) : Utf8Len(s[i]) >= 1})
      + Cardinality({i \in 1..Len(s) : Utf8Len(s[i]) >= 2})
      + Cardinality({i \in 1..Len(s) : Utf8Len(s[i]) >= 3})

\* s[i:j], 0 <= i <= j
Slice(s, i, j) == SubSeq(s, i + 1, Min(j, Len(s)))

\* the list comprehension alone, without the `or [""]`
split_txt_comprehension(s) ==
    [k \in 1..((Len(s) + TXT_MAX - 1) \div TXT_MAX) |->
        Slice(s, (k - 1) * TXT_MAX, k * TXT_MAX)]

\* [txt[i:i + 255] for i in range(0, len(txt), 255)] or [""]
split_txt(s) ==
    LET segs == [k \in 1..((Len(s) + TXT_MAX - 1) \div TXT_MAX) |->
                    Slice(s, (k - 1) * TXT_MAX, k * TXT_MAX)]
    IN  IF segs = << >> THEN << << >> >> ELSE segs

\* the texts split_txt is called with: n times the character c, with the
\* character d at position p when the text has one
SplitLens == {0, 1, 254, 255, 256, 510, 511, 600}
SplitChars == {"a", E_ACUTE, EURO}
SplitMarks == {0, 1, 255, 256}
SplitText(n, c, p, d) == [i \in 1..n |-> IF i = p THEN d ELSE c]
SplitTexts ==
    {SplitText(n, c, p, "b") : n \in SplitLens, c \in SplitChars, p \in SplitMarks}

\* one call of split_txt
Split ==
    /\ spc = "call"
    /\ segments' = split_txt(txt)
    /\ spc' = "returned"
    /\ UNCHANGED <<now, BUCKETS, seqvars, thvars, aggvars, txt,
                   msg, qi, reply, sent, rlCalls, nstarted, finals, armedAt, oq, oppc, oemitted>>

InitSplit ==
    /\ now = 0
    /\ BUCKETS = << >>
    /\ InitSeq
    /\ InitThreads
    /\ startTokens = [ip \in Keys |-> TOKENS_PER_MIN]
    /\ InitNoQuestion
    /\ msg = [parses |-> FALSE, questions |-> << >>]
    /\ qi = 0
    /\ reply = << >>
    /\ sent = 0
    /\ rlCalls = 0
    /\ nstarted = 0
    /\ finals = << >>
    /\ armedAt = 0
    /\ oq = << >>
    /\ oppc = "off"
    /\ oemitted = 0
    /\ txt \in SplitTexts
    /\ segments = << >>
    /\ spc = "call"

NextSplit == Split

SpecSplit == InitSplit /\ [][NextSplit]_vars

\* ------------------------------------- DNSHandler.handle, a whole message
TTL == 60

\* the client of the message
SrcIp == "ip1"

\* the qtypes of req.questions, for the messages that parse
MsgQuestions ==
    {<< >>, <<"A">>, <<"TXT">>, <<"A", "TXT">>, <<"TXT", "A">>, <<"TXT", "TXT">>}
Messages ==
    {[parses |-> FALSE, questions |-> << >>]}
      \cup {[parses |-> TRUE, questions |-> qs] : qs \in MsgQuestions}

\* the chunk and error lengths of the streams of a message; such a stream
\* carries one chunk at most
MsgFragLens == {280}
MsgErrLens == {30}

\* the answer of the rate limiter is not looked at
HandleRateLimitIgnored ==
    /\ pc = "L126"
    /\ LET old == BucketGet(BUCKETS, SrcIp, now)
           tokens == Refill(old.tokens, old.ts, now)
       IN  /\ BUCKETS' = BucketPut(BUCKETS, SrcIp, Stored(tokens, now))
           /\ ret' = [ip |-> SrcIp, allowed |-> Admit(tokens)]
           /\ pc' = "L129"
    /\ rlCalls' = rlCalls + 1
    /\ UNCHANGED <<now, nticks, drainedAt, winvars, thvars, q_out, response_chunks, deadline, done,
                   final, waitEnd, marked, endedAtFinal, pvars,
                   msg, qi, reply, sent, nstarted, finals, armedAt, oq, oppc, oemitted,
                   splitvars>>

\* lines 124-127: the rate limiter is asked once, for the source address
HandleRateLimit ==
    /\ pc = "L126"
    /\ LET old == BucketGet(BUCKETS, SrcIp, now)
           tokens == Refill(old.tokens, old.ts, now)
       IN  /\ BUCKETS' = BucketPut(BUCKETS, SrcIp, Stored(tokens, now))
           /\ ret' = [ip |-> SrcIp, allowed |-> Admit(tokens)]
           /\ pc' = IF Admit(tokens) THEN "L129" ELSE "dropped"
    /\ rlCalls' = rlCalls + 1
    /\ UNCHANGED <<now, nticks, drainedAt, winvars, thvars, q_out, response_chunks, deadline, done,
                   final, waitEnd, marked, endedAtFinal, pvars,
                   msg, qi, reply, sent, nstarted, finals, armedAt, oq, oppc, oemitted,
                   splitvars>>

\* lines 129-138: the message is parsed; one that does not parse, or has no
\* question, ends the handler; else the reply is created
HandleParse ==
    /\ pc = "L129"
    /\ pc' = IF ~msg.parses \/ msg.questions = << >> THEN "dropped" ELSE "L140"
    /\ reply' = << >>
    /\ qi' = 0
    /\ UNCHANGED <<now, BUCKETS, seqvars, thvars, q_out, response_chunks, deadline, done,
                   final, waitEnd, marked, endedAtFinal, pvars,
                   msg, sent, rlCalls, nstarted, finals, armedAt, oq, oppc, oemitted,
                   splitvars>>

\* the for loop without the test of line 141
HandleNextQuestionAnyType ==
    /\ pc = "L140"
    /\ IF qi = Len(msg.questions)
       THEN pc' = "L181" /\ UNCHANGED qi
       ELSE /\ qi' = qi + 1
            /\ pc' = "L147"
    /\ UNCHANGED <<now, BUCKETS, seqvars, thvars, q_out, response_chunks, deadline, done,
                   final, waitEnd, marked, endedAtFinal, pvars,
                   msg, reply, sent, rlCalls, nstarted, finals, armedAt, oq, oppc, oemitted,
                   splitvars>>

\* lines 140-142: the for loop takes the next question, and skips it when it
\* does not ask for TXT; after the last one the loop ends
HandleNextQuestion ==
    /\ pc = "L140"
    /\ IF qi = Len(msg.questions)
       THEN pc' = "L181" /\ UNCHANGED qi
       ELSE /\ qi' = qi + 1
            /\ pc' = IF msg.questions[qi + 1] = "TXT" THEN "L147" ELSE "L140"
    /\ UNCHANGED <<now, BUCKETS, seqvars, thvars, q_out, response_chunks, deadline, done,
                   final, waitEnd, marked, endedAtFinal, pvars,
                   msg, reply, sent, rlCalls, nstarted, finals, armedAt, oq, oppc, oemitted,
                   splitvars>>

\* lines 85-87: a line of the response whose "content" is not a str
PutNonStr ==
    /\ ppc = "try"
    /\ emitted = << >>
    /\ Put(Item(NotAStr))
    /\ UNCHANGED <<now, BUCKETS, seqvars, thvars, msgvars, hvars, ppc, failed>>

\* lines 172-179: the record of the question is added to the reply
HandleAddAnswer ==
    /\ pc = "answered"
    /\ reply' = Append(reply, [q |-> qi, ttl |-> TTL, rdata |-> split_txt(final)])
    /\ pc' = "L140"
    /\ UNCHANGED <<now, BUCKETS, seqvars, thvars, q_out, response_chunks, deadline, done,
                   final, waitEnd, marked, endedAtFinal, pvars,
                   msg, qi, sent, rlCalls, nstarted, finals, armedAt, oq, oppc, oemitted,
                   splitvars>>

\* line 181: sock.sendto(reply.pack(), self.client_address)
HandleSend ==
    /\ pc = "L181"
    /\ sent' = sent + 1
    /\ pc' = "sent"
    /\ UNCHANGED <<now, BUCKETS, seqvars, thvars, q_out, response_chunks, deadline, done,
                   final, waitEnd, marked, endedAtFinal, pvars,
                   msg, qi, reply, rlCalls, nstarted, finals, armedAt, oq, oppc, oemitted,
                   splitvars>>

\* the llm_stream thread of the question before puts on the queue of the
\* question in progress
OrphanPutShared(item) ==
    /\ q_out' = Append(q_out, item)
    /\ UNCHANGED oq

\* the llm_stream thread of the question before puts on out_queue, the queue
\* it was started with
OrphanPut(item) ==
    /\ oq' = Append(oq, item)
    /\ UNCHANGED q_out

\* lines 82-87, in the thread of the question before
OrphanPutChunk(n) ==
    /\ oppc = "try"
    /\ oemitted = 0
    /\ OrphanPut(Item(Chunk(oemitted + 1, n)))
    /\ oemitted' = oemitted + 1
    /\ UNCHANGED <<now, BUCKETS, seqvars, thvars, hvars, pvars,
                   msg, qi, reply, sent, rlCalls, nstarted, finals, armedAt, oppc,
                   splitvars>>

\* lines 80-85 raise and lines 91-92 run, in the thread of the question before
OrphanFail(n) ==
    /\ oppc = "try"
    /\ OrphanPut(Item(ErrorText(n)))
    /\ oemitted' = oemitted + 1
    /\ oppc' = "finally"
    /\ UNCHANGED <<now, BUCKETS, seqvars, thvars, hvars, pvars,
                   msg, qi, reply, sent, rlCalls, nstarted, finals, armedAt,
                   splitvars>>

\* lines 82, 88-89, in the thread of the question before
OrphanEndOfStream ==
    /\ oppc = "try"
    /\ oppc' = "finally"
    /\ UNCHANGED <<now, BUCKETS, seqvars, thvars, aggvars,
                   msg, qi, reply, sent, rlCalls, nstarted, finals, armedAt, oq, oemitted,
                   splitvars>>

\* lines 94-95, in the thread of the question before
OrphanPutNone ==
    /\ oppc = "finally"
    /\ OrphanPut(None)
    /\ oppc' = "ended"
    /\ UNCHANGED <<now, BUCKETS, seqvars, thvars, hvars, pvars,
                   msg, qi, reply, sent, rlCalls, nstarted, finals, armedAt, oemitted,
                   splitvars>>

\* a message arrives from a client that has never called, or from one that
\* has just spent its last token
InitMsg ==
    /\ now = 0
    /\ \/ BUCKETS = << >>
       \/ BUCKETS = [ip \in {SrcIp} |-> [tokens |-> 0, ts |-> 0]]
    /\ InitSeq
    /\ InitThreads
    /\ startTokens = [ip \in Keys |-> TOKENS_PER_MIN]
    /\ pc = "L126"
    /\ q_out = << >>
    /\ response_chunks = << >>
    /\ deadline = 0
    /\ done = FALSE
    /\ final = << >>
    /\ waitEnd = 0
    /\ ppc = "off"
    /\ emitted = << >>
    /\ failed = FALSE
    /\ earlyPut = FALSE
    /\ marked = FALSE
    /\ endedAtFinal = FALSE
    /\ msg \in Messages
    /\ qi = 0
    /\ reply = << >>
    /\ sent = 0
    /\ rlCalls = 0
    /\ nstarted = 0
    /\ finals = << >>
    /\ armedAt = 0
    /\ oq = << >>
    /\ oppc = "off"
    /\ oemitted = 0
    /\ InitNoSplit

NextMsg ==
    \/ HandleRateLimit
    \/ HandleParse
    \/ HandleNextQuestion
    \/ StartStream
    \/ ArmDeadline
    \/ LoopTest
    \/ CallGet
    \/ GetItem
    \/ GetEmpty
    \/ Finalize
    \/ HandleAddAnswer
    \/ HandleSend
    \/ \E n \in MsgFragLens : emitted = << >> /\ PutChunk(n)
    \/ PutNonStr
    \/ \E n \in MsgErrLens : Fail(n)
    \/ EndOfStream
    \/ PutNone
    \/ \E n \in MsgFragLens : OrphanPutChunk(n)
    \/ \E n \in MsgErrLens : OrphanFail(n)
    \/ OrphanEndOfStream
    \/ OrphanPutNone
    \/ Elapse

SpecMsg == InitMsg /\ [][NextMsg]_vars

\* ------------------------------------------------- claims, rate limiter

\* C1 (as stated): of the calls for one key made at non-decreasing times, no
\* more than TOKENS_PER_MIN return True within any 60-second sliding window.
C1_WindowAtMostCapacity == winAdmits <= TOKENS_PER_MIN

\* C1 (amended): the calls that return True within a 60-second window are at
\* most the capacity plus the tokens refilled since the window opened, hence
\* fewer than twice the capacity.
C1_WindowBelowTwiceCapacity ==
    winKey # NoKey =>
        /\ winAdmits * Unit
              <= Capacity + Min(now - winStart, Window - 1) * TOKENS_PER_MIN
        /\ winAdmits <= 2 * TOKENS_PER_MIN - 1

\* a full bucket spent at once and the refill of the rest of the minute spent
\* too: 2 * TOKENS_PER_MIN - 1 calls admitted in one window
C1_Witness ==
    /\ winKey # NoKey
    /\ now - winStart < Window
    /\ winAdmits = 2 * TOKENS_PER_MIN - 1

\* C3: in every reachable state every stored bucket holds at least 0 and at
\* most TOKENS_PER_MIN tokens.
C3_TokensInRange ==
    \A ip \in DOMAIN BUCKETS :
        /\ 0 <= BUCKETS[ip].tokens
        /\ BUCKETS[ip].tokens <= Capacity

\* C4: of the calls a previously unseen key makes within less than a second,
\* the first TOKENS_PER_MIN return True and the next one returns False.
C4_FreshBurst ==
    (winKey # NoKey /\ winFresh /\ now - winStart < TicksPerSec) =>
        winAdmits = Min(winCalls, TOKENS_PER_MIN)

\* the 61st call of the burst has returned False
C4_Witness ==
    /\ winKey # NoKey
    /\ winFresh
    /\ now - winStart < TicksPerSec
    /\ winCalls = TOKENS_PER_MIN + 1
    /\ winAdmits = TOKENS_PER_MIN
    /\ ret = [ip |-> winKey, allowed |-> FALSE]

\* C17: a call that returns False stores the refilled count
\* min(capacity, tokens + elapsed * capacity / 60), not decremented, with the
\* time of the call; and a call made 60 / capacity seconds or more after the
\* key was drained returns True, whatever calls were denied in between.
C17_DeniedKeepsCredit ==
    [][\A ip \in SeqKeys :
          (ret'.ip = ip /\ (BUCKETS' # BUCKETS \/ ret' # ret)) =>
              LET old == BucketGet(BUCKETS, ip, now)
              IN  /\ ~ret'.allowed =>
                        BUCKETS'[ip] =
                            [tokens |-> Min(Capacity,
                                            old.tokens + (now - old.ts) * TOKENS_PER_MIN),
                             ts |-> now]
                  /\ (drainedAt >= 0
                        /\ (now - drainedAt) * TOKENS_PER_MIN >= SECONDS_PER_MIN * TicksPerSec)
                        => ret'.allowed
      ]_vars

\* half a second after the key was drained a call was denied, and the bucket
\* holds the half token refilled since
C17_Witness ==
    /\ ret = [ip |-> "ip1", allowed |-> FALSE]
    /\ drainedAt >= 0
    /\ now = drainedAt + 1
    /\ BUCKETS["ip1"] = [tokens |-> TOKENS_PER_MIN, ts |-> now]

\* C2: concurrent calls for one key lose no update: while no time elapses,
\* from a bucket of k whole tokens at most k calls return True, and once no
\* call is in progress the bucket holds k minus the number of admitted calls.
C2_NoLostUpdate ==
    now = 0 =>
        \A ip \in Keys :
            /\ admits[ip] <= startTokens[ip]
            /\ (ip \in DOMAIN BUCKETS /\ \A t \in Threads : tip[t] # ip) =>
                  BUCKETS[ip].tokens = (startTokens[ip] - admits[ip]) * Unit

\* ------------------------------------------- claims, consumption loop

\* C5: whatever the producer does, the consumption loop ends by finalizing an
\* Answer, and its q_out.get never waits past the deadline set when the
\* processing of the question began.
C5_FinalizesWithinDeadline ==
    /\ pc # "raised"
    /\ pc = "get" => waitEnd <= deadline
    /\ (pc = "get" /\ q_out = << >>) => now <= deadline

\* C6: a stream of less than MAX_CHARS characters in all (of no chunk at all,
\* too) that ended without an error and whose None was consumed gives the
\* concatenation of its chunks as the content, untouched.
C6_CleanCompletionUntouched ==
    (pc = "answered" /\ done /\ ~failed /\ Len(Join(emitted)) < MAX_CHARS) =>
        final = Join(emitted)

\* C7: the "..." never replaces the end of a text whose stream had put all of
\* its text and then its None without an error, a text of exactly MAX_CHARS
\* characters included.
C7_NoMarkerOnCleanCompletion ==
    (/\ pc = "answered"
     /\ endedAtFinal
     /\ ~failed
     /\ Len(Join(emitted)) >= 1
     /\ Len(Join(emitted)) <= MAX_CHARS) =>
        ~marked

\* C8: when the accumulated text has reached MAX_CHARS characters or more, the
\* content is MAX_CHARS characters long, ends with "...", starts with the
\* first MAX_CHARS - 3 characters the stream emitted, and is not complete.
C8_CapReached ==
    (pc = "answered" /\ Len(Join(response_chunks)) >= MAX_CHARS) =>
        /\ Len(final) = MAX_CHARS
        /\ SubSeq(final, MAX_CHARS - 2, MAX_CHARS) = Marker
        /\ SubSeq(final, 1, MAX_CHARS - 3) = SubSeq(Join(emitted), 1, MAX_CHARS - 3)
        /\ ~done

\* chunks of 250 and 280 characters, 530 in all, made the Answer
C8_Witness ==
    /\ pc = "answered"
    /\ Len(response_chunks) = 2
    /\ Len(Join(response_chunks)) = MAX_CHARS + 30
    /\ ~failed

\* C9: every non-empty text the loop stopped on without having got the None
\* (the deadline passed or MAX_CHARS was reached) has its last 3 characters
\* replaced by "...", a text shorter than MAX_CHARS too.
C9_MarkerOnEveryCut ==
    (pc = "answered" /\ ~done /\ Truncate(Join(response_chunks)) # << >>) =>
        final = DropLast(Truncate(Join(response_chunks)), 3) \o Marker

\* C10: when nothing was put on the queue until the deadline had passed, the
\* content is "Request timed out" and the Answer is not complete.
C10_TimeoutSentinel ==
    (pc = "answered" /\ ~earlyPut) => (final = TIMEOUT_TEXT /\ ~done)

\* the deadline has passed on a producer that is still in its request and
\* has put nothing
C10_Witness ==
    /\ pc = "answered"
    /\ ~earlyPut
    /\ ppc = "try"
    /\ emitted = << >>
    /\ now >= deadline

\* C16: whatever the outcome of a question (completion, cut at the cap, cut
\* by the deadline, timeout text, error text of the backend), the content
\* given to split_txt has at most MAX_CHARS characters.
C16_ContentAtMostMaxChars ==
    pc = "answered" => Len(final) <= MAX_CHARS

\* the error text of the backend, longer than MAX_CHARS, was cut to MAX_CHARS
C16_Witness ==
    /\ pc = "answered"
    /\ failed
    /\ Len(Join(response_chunks)) > MAX_CHARS
    /\ Len(response_chunks) = 1
    /\ Len(final) = MAX_CHARS

\* ------------------------------------------------------ claims, llm_stream

\* C20: llm_stream ends, after the end of the response, a done line or an
\* exception, only by putting None; it puts nothing after it; and when it
\* failed, the error text is the item it put just before the None.
C20_OneEndMarkerLast ==
    [][/\ (ppc' = "ended" /\ ppc # "ended") =>
              (ppc = "finally" /\ q_out' = Append(q_out, None))
       /\ ppc = "ended" =>
              (ppc' = "ended" /\ emitted' = emitted /\ Len(q_out') <= Len(q_out))
       /\ (failed' /\ ~failed) =>
              /\ ppc' = "finally"
              /\ \E n \in ErrLens :
                    /\ q_out' = Append(q_out, Item(ErrorText(n)))
                    /\ emitted' = Append(emitted, ErrorText(n))
       /\ (ppc = "finally" /\ q_out' # q_out) =>
              \/ q_out # << >> /\ q_out' = Tail(q_out) /\ ppc' = "finally"
              \/ q_out' = Append(q_out, None) /\ ppc' = "ended"
       /\ (ppc = "finally" /\ ppc' # "finally") => ppc' = "ended"
      ]_vars

\* a stream that failed after a chunk has ended: the queue, which nothing was
\* taken from, holds the chunk, the error text and the None
C20_Witness ==
    /\ ppc = "ended"
    /\ failed
    /\ Len(emitted) = 2
    /\ Len(q_out) = 3
    /\ q_out[2] = Item(emitted[2])
    /\ SubSeq(q_out[2].text, 1, Len(LLM_ERROR_PREFIX)) = LLM_ERROR_PREFIX
    /\ q_out[3] = None

\* ------------------------------------------------------ claims, split_txt

\* C14: every segment split_txt returns is at most 255 bytes long, also when
\* the text has multi-byte characters; the segments are consecutive, without
\* overlap or gap, and only the last one may be shorter than 255.
C14_SegmentsAtMost255Bytes ==
    spc = "returned" =>
        /\ \A k \in 1..Len(segments) : Bytes(segments[k]) <= TXT_MAX
        /\ \A k \in 1..Len(segments) :
              segments[k] = Slice(txt, (k - 1) * TXT_MAX, k * TXT_MAX)
        /\ \A k \in 1..(Len(segments) - 1) : Len(segments[k]) = TXT_MAX

\* C15: the segments split_txt returns, concatenated in order, are the text,
\* and there is at least one: the empty text gives one empty segment.
C15_SegmentsRebuildText ==
    spc = "returned" =>
        /\ Join(segments) = txt
        /\ segments # << >>
        /\ txt = << >> => segments = << << >> >>

\* the empty text was split
C15_Witness ==
    /\ spc = "returned"
    /\ txt = << >>
    /\ segments = << << >> >>

\* ------------------------------------------------- claims, whole message

\* C11: a message that is admitted by the rate limiter and parses gets
\* exactly one reply, whatever the backend does: once its handler has ended,
\* one sendto has been made.
C11_AdmittedParsedReplied ==
    (pc \in {"sent", "dropped", "raised"} /\ ret.allowed /\ msg.parses) => sent = 1

\* C12: rate_limit_allow is called once per message, whatever the number of
\* its questions, and before any question is looked at; when it returned False
\* the handler has ended with no llm_stream thread started, no question
\* processed and nothing sent.
C12_RateLimitOncePerMessage ==
    /\ rlCalls = (IF pc = "L126" THEN 0 ELSE 1)
    /\ (nstarted > 0 \/ qi > 0 \/ sent > 0 \/ reply # << >>) => (rlCalls = 1 /\ ret.allowed)
    /\ (rlCalls = 1 /\ ~ret.allowed) =>
          /\ pc = "dropped"
          /\ nstarted = 0
          /\ qi = 0
          /\ sent = 0

\* a message of two TXT questions was dropped after the one call returned
\* False
C12_Witness ==
    /\ rlCalls = 1
    /\ ~ret.allowed
    /\ pc = "dropped"
    /\ msg.parses
    /\ msg.questions = <<"TXT", "TXT">>

\* the indices of the questions that ask for TXT, in order
TxtQuestions(qs) ==
    SelectSeq([i \in 1..Len(qs) |-> i], LAMBDA i : qs[i] = "TXT")

\* C13: the reply that is sent has one answer record per question that asked
\* for TXT, in the order of the questions, each with the TTL and the segments
\* of the Answer finalized for that question; the other questions have none.
C13_OneRecordPerTxtQuestion ==
    pc \in {"L181", "sent"} =>
        /\ Len(reply) = Len(TxtQuestions(msg.questions))
        /\ Len(finals) = Len(reply)
        /\ \A k \in 1..Len(reply) :
              /\ reply[k].q = TxtQuestions(msg.questions)[k]
              /\ reply[k].ttl = TTL
              /\ finals[k].q = reply[k].q
              /\ reply[k].rdata = split_txt(finals[k].text)

\* a reply to a message with a question of another type before a TXT one, whose
\* answer takes two segments
C13_Witness ==
    /\ pc = "sent"
    /\ msg.questions = <<"A", "TXT">>
    /\ Len(reply) = 1
    /\ reply[1].q = 2
    /\ Len(reply[1].rdata) = 2

\* a is the beginning of b
IsPrefix(a, b) == Len(a) <= Len(b) /\ a = SubSeq(b, 1, Len(a))

\* C18: the text accumulated for a question is always a prefix of what the
\* llm_stream thread of that question has put, in order; what is put after
\* the Answer was finalized, or by the thread of the question before, changes
\* neither it nor the Answer and the records made of it.
C18_OwnStreamPrefix ==
    /\ pc \in {"L155", "L157", "get", "L165", "answered"} =>
          IsPrefix(Join(response_chunks), Join(emitted))
    /\ pc = "answered" =>
          /\ final = Final(response_chunks, done)
          /\ finals[Len(finals)] = [q |-> qi, text |-> final]
    /\ \A k \in 1..Len(reply) : reply[k].rdata = split_txt(finals[k].text)

\* the second question was answered from its own stream while the thread of
\* the first, which had timed out, had put its chunk and its None
C18_Witness ==
    /\ pc = "answered"
    /\ nstarted = 2
    /\ finals[1].text = TIMEOUT_TEXT
    /\ oppc = "ended"
    /\ Len(oq) = 2
    /\ Len(response_chunks) = 1
    /\ failed

\* C19: the questions of a message are processed one after the other: a
\* thread is started and a deadline set for a question only when all the
\* questions before have their Answer and record, and the deadline is
\* DEADLINE_SECONDS after the time line 152 ran for that very question.
C19_OwnFullBudget ==
    /\ nstarted <= Len(finals) + 1
    /\ pc \in {"L151", "L155", "L157", "get", "L165"} =>
          /\ nstarted = Len(finals) + 1
          /\ Len(reply) = Len(finals)
    /\ pc \in {"L155", "L157", "get", "L165"} =>
          /\ deadline = armedAt + DEADLINE_SECONDS * TicksPerSec
          /\ now >= armedAt

\* the second question waits on its queue, its deadline set after the first
\* one had used its whole budget
C19_Witness ==
    /\ pc = "get"
    /\ nstarted = 2
    /\ Len(finals) = 1
    /\ armedAt >= DEADLINE_SECONDS * TicksPerSec
    /\ deadline = armedAt + DEADLINE_SECONDS * TicksPerSec
    /\ now < deadline

====
